---- MODULE Spec2Model ----
(***************************************************************************)
(* A model of src/analyzer.py: the YouTube comment sanitizer, the batcher, *)
(* the JSON repair, the raw-results store file, the merger and the         *)
(* pipeline driver CommentsAnalysis.run.                                   *)
(*                                                                         *)
(* Texts are sequences of characters; a character is a one-character       *)
(* string.  Files are modelled by their content, character by character,   *)
(* so that the in-place rewrite of raw_results.json (seek(0) and no        *)
(* truncate) and the json.load / json.dump round trip are computed, not    *)
(* assumed.                                                                *)
(***************************************************************************)
EXTENDS Integers, Sequences, FiniteSets, TLC

VARIABLES
    pc,                  \* where the CommentsAnalysis object is: see PcValues
    comments_chunks,     \* run(): the chunks of the current run
    idx,                 \* run(): index of the chunk the loop is at
    results,             \* history: what crew.kickoff did for each dispatched chunk
    raw_results_file,    \* raw_results.json: [exists, data]
    final_results_file,  \* final_results.json: [exists, data]
    log,                 \* the logging records of the current run or call
    kickoffs,            \* number of crew.kickoff calls made so far
    arg,                 \* the argument of the pure function under check
    res                  \* the successive results of the pure function

vars == <<pc, comments_chunks, idx, results, raw_results_file,
          final_results_file, log, kickoffs, arg, res>>

pipeVars == <<pc, comments_chunks, idx, results, raw_results_file,
              final_results_file, log, kickoffs>>

fnVars == <<arg, res>>

----------------------------------------------------------------------------
(* Bounds of the model.                                                    *)

MaxFixLen == 4        \* longest text handed to fix_trailing_commas
MaxCleanFrags == 4    \* most fragments in a text handed to the sanitizer
MaxN == 5             \* longest comment list handed to split_comments
MaxK == 3             \* largest chunk size handed to split_comments
MaxKickoffs == 3      \* most crew.kickoff calls in a behaviour
MaxAppends == 2       \* most append_result_to_json calls in a behaviour

----------------------------------------------------------------------------
(* Sequences of characters.                                                *)

\* What Python's \s (and str.strip) treats as whitespace, as far as the
\* modelled texts hold it.
Whitespace == {" ", "\n", "\t"}

HexDigits == {"0", "1", "2", "3", "4", "5", "6", "7", "8", "9",
              "a", "b", "c", "d", "e", "f", "A", "B", "C", "D", "E", "F"}

RECURSIVE Flatten(_)
Flatten(ss) == IF ss = <<>> THEN <<>> ELSE Head(ss) \o Flatten(Tail(ss))

\* All sequences over S of length at most n.
SeqsUpTo(S, n) == UNION {[1..k -> S] : k \in 0..n}

\* The first position at or after i that holds no whitespace (greedy \s*).
RECURSIVE SkipWs(_, _)
SkipWs(s, i) ==
    IF i <= Len(s) /\ s[i] \in Whitespace THEN SkipWs(s, i + 1) ELSE i

\* Whether the literal pat occurs in s at position i.
MatchAt(s, pat, i) ==
    /\ i + Len(pat) - 1 <= Len(s)
    /\ \A k \in 1..Len(pat) : s[i + k - 1] = pat[k]

\* re.sub of a literal pattern: leftmost, non-overlapping, left to right.
RECURSIVE ReSubLit(_, _, _, _)
ReSubLit(s, pat, rep, i) ==
    IF i > Len(s) THEN <<>>
    ELSE IF MatchAt(s, pat, i)
         THEN rep \o ReSubLit(s, pat, rep, i + Len(pat))
         ELSE <<s[i]>> \o ReSubLit(s, pat, rep, i + 1)

\* re.sub(r'\\<letter>[0-9A-Fa-f]{n}', '', s).
MatchEsc(s, letter, n, i) ==
    /\ i + 1 + n <= Len(s)
    /\ s[i] = "\\"
    /\ s[i + 1] = letter
    /\ \A k \in (i + 2)..(i + 1 + n) : s[k] \in HexDigits

RECURSIVE ReSubEsc(_, _, _, _)
ReSubEsc(s, letter, n, i) ==
    IF i > Len(s) THEN <<>>
    ELSE IF MatchEsc(s, letter, n, i)
         THEN ReSubEsc(s, letter, n, i + 2 + n)
         ELSE <<s[i]>> \o ReSubEsc(s, letter, n, i + 1)

\* re.sub(r'\s+', ' ', s).
RECURSIVE ReSubWs(_, _)
ReSubWs(s, i) ==
    IF i > Len(s) THEN <<>>
    ELSE IF s[i] \in Whitespace
         THEN <<" ">> \o ReSubWs(s, SkipWs(s, i))
         ELSE <<s[i]>> \o ReSubWs(s, i + 1)

\* str.strip(): leading and trailing whitespace removed.
RECURSIVE RStrip(_)
RStrip(s) ==
    IF s # <<>> /\ s[Len(s)] \in Whitespace
    THEN RStrip(SubSeq(s, 1, Len(s) - 1))
    ELSE s

Strip(s) == LET t == RStrip(s) IN SubSeq(t, SkipWs(t, 1), Len(t))

----------------------------------------------------------------------------
(* YouTubeCommentsTool.clean_escape_characters                             *)

\* A sanitizer that forgets line 77.
KeepBackslashes(s) == s

\* re.sub(r'\\', '', text): the removal of the backslashes that are left.
DropBackslashes(s) == ReSubLit(s, <<"\\">>, <<>>, 1)

clean_escape_characters(text) ==
    LET t1  == ReSubEsc(text, "u", 4, 1)
        t2  == ReSubEsc(t1, "U", 8, 1)
        t3  == ReSubLit(t2, <<"\\", "n">>, <<" ">>, 1)
        t4  == ReSubLit(t3, <<"\\", "t">>, <<" ">>, 1)
        t5  == ReSubLit(t4, <<"\\", "r">>, <<" ">>, 1)
        t6  == ReSubLit(t5, <<"\\", "\"">>, <<>>, 1)
        t7  == ReSubLit(t6, <<"\\", "'">>, <<"'">>, 1)
        t8  == ReSubLit(t7, <<"\\", "$">>, <<"$">>, 1)
        t9  == DropBackslashes(t8)
        t10 == ReSubLit(t9, <<"\"">>, <<>>, 1)
    IN  Strip(ReSubWs(t10, 1))

----------------------------------------------------------------------------
(* CommentsAnalysis.split_comments                                         *)

\* A slice that keeps only full chunks: the short tail is dropped.
SliceFull(comments, i, j) ==
    IF j <= Len(comments) THEN SubSeq(comments, i + 1, j) ELSE <<>>

\* comments[i:j] for 0 <= i <= j: Python clamps j to len(comments).
Slice(comments, i, j) ==
    SubSeq(comments, i + 1, IF j < Len(comments) THEN j ELSE Len(comments))

\* [comments[i:i + chunk_size] for i in range(0, len(comments), chunk_size)]
RECURSIVE SplitFrom(_, _, _)
SplitFrom(comments, chunk_size, i) ==
    IF i >= Len(comments) THEN <<>>
    ELSE <<Slice(comments, i, i + chunk_size)>>
             \o SplitFrom(comments, chunk_size, i + chunk_size)

split_comments(comments, chunk_size) == SplitFrom(comments, chunk_size, 0)

----------------------------------------------------------------------------
(* CommentsAnalysis.fix_trailing_commas                                    *)

\* re.sub(r',\s*X', 'X', s) for a closing bracket X, from position i on.
RECURSIVE SubTrailing(_, _, _)
SubTrailing(s, closer, i) ==
    IF i > Len(s) THEN <<>>
    ELSE LET j == SkipWs(s, i + 1) IN
         IF s[i] = "," /\ j <= Len(s) /\ s[j] = closer
         THEN <<closer>> \o SubTrailing(s, closer, j + 1)
         ELSE <<s[i]>> \o SubTrailing(s, closer, i + 1)

\* A repair that forgets the closing brace.
FixBracesNot(s) == s

\* re.sub(r',\s*}', '}', json_str) (line 213), on the result of line 212.
FixBraces(s) == SubTrailing(s, "}", 1)

fix_trailing_commas(json_str) ==
    FixBraces(SubTrailing(json_str, "]", 1))

----------------------------------------------------------------------------
(* JSON values, json.loads and json.dump as the program uses them.         *)
(*                                                                         *)
(* A value is a record [t, v]: t is its Python type and v its content: the *)
(* items of a list, the [k, v] pairs of a dict in insertion order, the     *)
(* characters of a str, the digits of an int.                              *)

\* The six-character escape \ud83d of a text is one symbol of the model: a
\* lone high surrogate, which json.loads accepts and decodes to Surrogate.
SurrogateEscape == "\\ud83d"

\* The code unit U+D83D inside a Python str: utf-8 cannot encode it.
Surrogate == "<U+D83D>"

Null == [t |-> "null", v |-> <<>>]

True == [t |-> "true", v |-> <<>>]

Str(chars) == [t |-> "str", v |-> chars]

Num(digits) == [t |-> "num", v |-> digits]

List(items) == [t |-> "list", v |-> items]

Dict(pairs) == [t |-> "dict", v |-> pairs]

Digits == {"0", "1", "2", "3", "4", "5", "6", "7", "8", "9"}

ParseFail == [ok |-> FALSE, val |-> Null, pos |-> 0]

ParseOk(val, pos) == [ok |-> TRUE, val |-> val, pos |-> pos]

\* d[key] = value on a dict under construction: a repeated key keeps its
\* place and takes the last value.
DictSet(pairs, key, value) ==
    IF \E n \in DOMAIN pairs : pairs[n].k = key
    THEN [n \in DOMAIN pairs |->
             IF pairs[n].k = key THEN [k |-> key, v |-> value] ELSE pairs[n]]
    ELSE Append(pairs, [k |-> key, v |-> value])

\* The characters of a string up to its closing quote.  The modelled texts
\* hold no escape but SurrogateEscape; a raw control character or another
\* backslash is a decode error.
RECURSIVE ParseString(_, _, _)
ParseString(s, i, acc) ==
    IF i > Len(s) THEN ParseFail
    ELSE IF s[i] = "\"" THEN ParseOk(Str(acc), i + 1)
    ELSE IF s[i] = SurrogateEscape
         THEN ParseString(s, i + 1, Append(acc, Surrogate))
    ELSE IF s[i] \in {"\\", "\n", "\t"} THEN ParseFail
    ELSE ParseString(s, i + 1, Append(acc, s[i]))

RECURSIVE SkipDigits(_, _)
SkipDigits(s, i) ==
    IF i <= Len(s) /\ s[i] \in Digits THEN SkipDigits(s, i + 1) ELSE i

RECURSIVE ParseValue(_, _)
RECURSIVE ParseElements(_, _, _, _)
RECURSIVE ParseMembers(_, _, _, _)

\* The value that starts at position i (whitespace before it is skipped).
ParseValue(s, i) ==
    LET j == SkipWs(s, i) IN
    IF j > Len(s) THEN ParseFail
    ELSE IF s[j] = "{" THEN ParseMembers(s, SkipWs(s, j + 1), <<>>, TRUE)
    ELSE IF s[j] = "[" THEN ParseElements(s, SkipWs(s, j + 1), <<>>, TRUE)
    ELSE IF s[j] = "\"" THEN ParseString(s, j + 1, <<>>)
    ELSE IF s[j] \in Digits
         THEN LET e == IF s[j] = "0" THEN j + 1 ELSE SkipDigits(s, j)
              IN  ParseOk(Num(SubSeq(s, j, e - 1)), e)
    ELSE IF MatchAt(s, <<"n", "u", "l", "l">>, j) THEN ParseOk(Null, j + 4)
    ELSE IF MatchAt(s, <<"t", "r", "u", "e">>, j) THEN ParseOk(True, j + 4)
    ELSE ParseFail

\* The items of an array from position i, which follows "[" or ",".
ParseElements(s, i, acc, first) ==
    IF i > Len(s) THEN ParseFail
    ELSE IF first /\ s[i] = "]" THEN ParseOk(List(acc), i + 1)
    ELSE LET item == ParseValue(s, i) IN
         IF ~item.ok THEN ParseFail
         ELSE LET k == SkipWs(s, item.pos) IN
              IF k > Len(s) THEN ParseFail
              ELSE IF s[k] = ","
                   THEN ParseElements(s, SkipWs(s, k + 1),
                                      Append(acc, item.val), FALSE)
              ELSE IF s[k] = "]"
                   THEN ParseOk(List(Append(acc, item.val)), k + 1)
              ELSE ParseFail

\* The members of an object from position i, which follows "{" or ",".
ParseMembers(s, i, acc, first) ==
    IF i > Len(s) THEN ParseFail
    ELSE IF first /\ s[i] = "}" THEN ParseOk(Dict(acc), i + 1)
    ELSE IF s[i] # "\"" THEN ParseFail
    ELSE LET key == ParseString(s, i + 1, <<>>) IN
         IF ~key.ok THEN ParseFail
         ELSE LET c == SkipWs(s, key.pos) IN
              IF c > Len(s) \/ s[c] # ":" THEN ParseFail
              ELSE LET item == ParseValue(s, c + 1) IN
                   IF ~item.ok THEN ParseFail
                   ELSE LET k == SkipWs(s, item.pos)
                            d == DictSet(acc, key.val.v, item.val)
                        IN  IF k > Len(s) THEN ParseFail
                            ELSE IF s[k] = ","
                                 THEN ParseMembers(s, SkipWs(s, k + 1), d, FALSE)
                            ELSE IF s[k] = "}" THEN ParseOk(Dict(d), k + 1)
                            ELSE ParseFail

\* json.loads(s) and json.load(f): one value and nothing but whitespace after
\* it; [ok |-> FALSE] stands for JSONDecodeError.
json_loads(s) ==
    LET r == ParseValue(s, 1) IN
    IF r.ok /\ SkipWs(s, r.pos) > Len(s) THEN r ELSE ParseFail

\* '\n' and the indentation of a nesting level, for indent=4.
NewlineIndent(level) == <<"\n">> \o [n \in 1..(4 * level) |-> " "]

Quoted(chars) == <<"\"">> \o chars \o <<"\"">>

IsScalar(val) == val.t \in {"str", "num", "null", "true"}

\* The text of a value that is neither a list nor a dict.
ScalarText(val) ==
    IF val.t = "str" THEN Quoted(val.v)
    ELSE IF val.t = "num" THEN val.v
    ELSE IF val.t = "null" THEN <<"n", "u", "l", "l">>
    ELSE <<"t", "r", "u", "e">>

\* json.dump(obj, f, ensure_ascii=False, indent=4) hands its text to f.write
\* piece by piece; these are the pieces, in order, as json.encoder yields
\* them: a scalar item of a list comes in one piece with the separator
\* before it, a key, ": " and a scalar value of a dict each come alone.
RECURSIVE DumpChunks(_, _)
RECURSIVE DumpItems(_, _, _)
RECURSIVE DumpPairs(_, _, _)

DumpChunks(val, level) ==
    IF IsScalar(val) THEN <<ScalarText(val)>>
    ELSE IF val.t = "list"
         THEN IF val.v = <<>> THEN << <<"[", "]">> >>
              ELSE DumpItems(val.v, level + 1, <<"[">> \o NewlineIndent(level + 1))
                     \o <<NewlineIndent(level), <<"]">> >>
    ELSE IF val.v = <<>> THEN << <<"{", "}">> >>
         ELSE << <<"{">>, NewlineIndent(level + 1) >>
                \o DumpPairs(val.v, level + 1, TRUE)
                \o <<NewlineIndent(level), <<"}">> >>

DumpItems(items, level, buf) ==
    IF items = <<>> THEN <<>>
    ELSE (IF IsScalar(Head(items))
          THEN <<buf \o ScalarText(Head(items))>>
          ELSE <<buf>> \o DumpChunks(Head(items), level))
         \o DumpItems(Tail(items), level, <<",">> \o NewlineIndent(level))

DumpPairs(pairs, level, first) ==
    IF pairs = <<>> THEN <<>>
    ELSE (IF first THEN <<>> ELSE << <<",">> \o NewlineIndent(level) >>)
         \o <<Quoted(Head(pairs).k), <<":", " ">> >>
         \o DumpChunks(Head(pairs).v, level)
         \o DumpPairs(Tail(pairs), level, FALSE)

\* The whole text json.dump writes when nothing stops it.
json_dumps(val) == Flatten(DumpChunks(val, 0))

\* f.write(chunk) on a file opened with encoding="utf-8" raises
\* UnicodeEncodeError for a chunk that holds a lone surrogate, before any
\* of the chunk is written.
Unencodable(chunk) == \E n \in DOMAIN chunk : chunk[n] = Surrogate

\* The chunks written before the first one that cannot be encoded.
RECURSIVE WrittenChunks(_)
WrittenChunks(chunks) ==
    IF chunks = <<>> \/ Unencodable(Head(chunks)) THEN <<>>
    ELSE <<Head(chunks)>> \o WrittenChunks(Tail(chunks))

\* json.dump(val, f): what reaches the file, and whether the dump raised.
DumpTo(val) ==
    LET chunks == DumpChunks(val, 0) IN
    [text |-> Flatten(WrittenChunks(chunks)),
     raised |-> \E n \in DOMAIN chunks : Unencodable(chunks[n])]

----------------------------------------------------------------------------
(* The files and the log.                                                  *)

NoFile == [exists |-> FALSE, data |-> <<>>]

File(data) == [exists |-> TRUE, data |-> data]

\* A logging record; task is the task number for the messages that carry
\* one ("Task {idx + 1} ...") and 0 for the others.
Log(msg) == [msg |-> msg, task |-> 0]

TaskLog(msg, n) == [msg |-> msg, task |-> n]

\* f.seek(0) and a write of text on a file opened "r+": the old content
\* beyond the written text stays (the file is not truncated).
Overwrite(old, text) == text \o SubSeq(old, Len(text) + 1, Len(old))

----------------------------------------------------------------------------
(* CommentsAnalysis.initialize_results_file, append_result_to_json         *)

initialize_results_file ==
    [file |-> File(DumpTo(List(<<>>)).text),
     log |-> <<Log("file created")>>]

append_result_to_json(file, result) ==
    LET failed == [file |-> file, log |-> <<Log("Failed to append the result")>>]
    IN
    IF ~file.exists THEN failed
    ELSE LET loaded == json_loads(file.data) IN
         IF ~loaded.ok THEN failed
         ELSE LET parsed == json_loads(fix_trailing_commas(result)) IN
              IF ~parsed.ok
              THEN [file |-> file,
                    log |-> <<Log("JSON decode error"), Log("Problematic result")>>]
              ELSE IF loaded.val.t # "list" THEN failed
              ELSE LET d == DumpTo(List(Append(loaded.val.v, parsed.val))) IN
                   [file |-> File(Overwrite(file.data, d.text)),
                    log |-> IF d.raised
                            THEN <<Log("Failed to append the result")>>
                            ELSE <<Log("result appended")>>]

----------------------------------------------------------------------------
(* CommentsAnalysis.merge_results                                          *)

Requests == <<"R", "e", "q", "u", "e", "s", "t", "s">>

Complaints == <<"C", "o", "m", "p", "l", "a", "i", "n", "t", "s">>

Suggestions == <<"S", "u", "g", "g", "e", "s", "t", "i", "o", "n", "s">>

Praise == <<"P", "r", "a", "i", "s", "e">>

Troubleshooting ==
    <<"T", "r", "o", "u", "b", "l", "e", "s", "h", "o", "o", "t", "i", "n", "g">>

Other == <<"O", "t", "h", "e", "r">>

Themes == <<Requests, Complaints, Suggestions, Praise, Troubleshooting, Other>>

\* final_results as merge_results creates it: the six keys, each an empty list.
EmptyReport == [n \in DOMAIN Themes |-> [k |-> Themes[n], v |-> List(<<>>)]]

KeyIn(pairs, key) == \E n \in DOMAIN pairs : pairs[n].k = key

\* What a for loop or list.extend draws from a value.
Iterable(val) == val.t \in {"list", "dict", "str"}

Items(val) ==
    IF val.t = "list" THEN val.v
    ELSE IF val.t = "dict" THEN [n \in DOMAIN val.v |-> Str(val.v[n].k)]
    ELSE [n \in DOMAIN val.v |-> Str(<<val.v[n]>>)]

\* A routing that forgets isinstance(value, list).
TargetKeyAnyValue(final_results, key, value) ==
    IF KeyIn(final_results, key) THEN key ELSE Other

\* The key of final_results that the pair (key, value) extends (lines 235-238).
TargetKey(final_results, key, value) ==
    IF KeyIn(final_results, key) /\ value.t = "list" THEN key ELSE Other

\* final_results[key].extend(items)
Extend(final_results, key, items) ==
    [n \in DOMAIN final_results |->
        IF final_results[n].k = key
        THEN [k |-> key, v |-> List(final_results[n].v.v \o items)]
        ELSE final_results[n]]

\* for key, value in entry.items(): ...  [ok |-> FALSE] stands for the
\* TypeError of extend on a value that cannot be iterated.
RECURSIVE MergePairs(_, _)
MergePairs(final_results, pairs) ==
    IF pairs = <<>> THEN [ok |-> TRUE, val |-> final_results]
    ELSE LET key == Head(pairs).k
             value == Head(pairs).v
         IN  IF ~Iterable(value) THEN [ok |-> FALSE, val |-> final_results]
             ELSE MergePairs(
                      Extend(final_results,
                             TargetKey(final_results, key, value), Items(value)),
                      Tail(pairs))

\* for entry in all_results: ...
RECURSIVE MergeEntries(_, _, _)
MergeEntries(final_results, entries, errors) ==
    IF entries = <<>>
    THEN [ok |-> TRUE, val |-> final_results, log |-> errors]
    ELSE IF Head(entries).t = "dict"
         THEN LET m == MergePairs(final_results, Head(entries).v) IN
              IF m.ok THEN MergeEntries(m.val, Tail(entries), errors)
              ELSE [ok |-> FALSE, val |-> m.val, log |-> errors]
         ELSE MergeEntries(final_results, Tail(entries),
                           Append(errors, Log("Unexpected entry type")))

merge_results(raw, final) ==
    LET failed(errors) ==
            [final |-> final,
             log |-> Append(errors, Log("Failed to merge results"))]
    IN
    IF ~raw.exists THEN failed(<<>>)
    ELSE LET all_results == json_loads(raw.data) IN
         IF ~all_results.ok \/ ~Iterable(all_results.val) THEN failed(<<>>)
         ELSE LET m == MergeEntries(EmptyReport, Items(all_results.val), <<>>) IN
              IF ~m.ok THEN failed(m.log)
              ELSE LET d == DumpTo(Dict(m.val)) IN
                   [final |-> File(d.text),
                    log |-> Append(m.log,
                                   IF d.raised
                                   THEN Log("Failed to merge results")
                                   ELSE Log("results merged"))]

----------------------------------------------------------------------------
(* What the agent may return, and what a caller may hand to the store.     *)

\* The text {"key":body}.
Obj(key, body) == <<"{">> \o Quoted(key) \o <<":">> \o body \o <<"}">>

\* The text ["c"].
Arr(c) == <<"[", "\"", c, "\"", "]">>

\* {"Praise":["a"]}
OutValid == Obj(Praise, Arr("a"))

\* {"Praise":["b", ],\n}: valid once repaired.
OutTrailing ==
    <<"{">> \o Quoted(Praise)
        \o <<":", "[", "\"", "b", "\"", ",", " ", "]", ",", "\n", "}">>

\* {"Praise":["c" : cut short, not JSON even when repaired.
OutMalformed == <<"{">> \o Quoted(Praise) \o <<":", "[", "\"", "c", "\"">>

\* {"Praise":["\ud83d"]}: half of an emoji's surrogate pair.
OutSurrogate == Obj(Praise, Arr(SurrogateEscape))

\* {"Other":["d,,]"]}: valid, and the repair still finds a comma in it.
OutCommaInString == Obj(Other, <<"[", "\"", "d", ",", ",", "]", "\"", "]">>)

\* {"praise":["e"],"Other":["f"],"Praise":["g","h"]}
OutManyKeys ==
    <<"{">> \o Quoted(<<"p", "r", "a", "i", "s", "e">>) \o <<":">> \o Arr("e")
        \o <<",">> \o Quoted(Other) \o <<":">> \o Arr("f")
        \o <<",">> \o Quoted(Praise)
        \o <<":", "[", "\"", "g", "\"", ",", "\"", "h", "\"", "]", "}">>

\* ["i"]: JSON, but no mapping.
OutNotMapping == Arr("i")

\* {"Praise":5}
OutNumberValue == Obj(Praise, <<"5">>)

\* {"Praise":null}
OutNullValue == Obj(Praise, <<"n", "u", "l", "l">>)

\* {"Requests":"jk"}
OutStringValue == Obj(Requests, <<"\"", "j", "k", "\"">>)

\* {"Weird":{"l":[]}}
OutMappingValue ==
    Obj(<<"W", "e", "i", "r", "d">>, Obj(<<"l">>, <<"[", "]">>))

\* The texts crew.kickoff returns in the model of run().
AgentOutputs ==
    {OutValid, OutTrailing, OutMalformed, OutSurrogate, OutCommaInString}

\* The texts handed to append_result_to_json when it is called on its own.
StoreTexts ==
    {OutValid, OutTrailing, OutMalformed, OutSurrogate, OutManyKeys,
     OutNotMapping, OutNumberValue, OutNullValue, OutStringValue,
     OutMappingValue}

----------------------------------------------------------------------------
(* CommentsAnalysis.__init__ and CommentsAnalysis.run                      *)

chunk_size == 20

\* The lengths of comments.json the model runs on: none, one chunk (short
\* and full), two chunks, three chunks.
CommentCounts ==
    {0, 1, chunk_size, chunk_size + 1, 2 * chunk_size + 1}

\* A loop that stays on the chunk it has just processed.
LoopStay(i) == i

\* for idx, chunk in enumerate(comments_chunks): the next index.
LoopNext(i) == i + 1

\* The for loop is over: every chunk has been taken.
LoopDone(i, n) == i >= n

\* Lines 277-291 of the loop body, on the result of crew.kickoff.
ProcessResult(file, result, i) ==
    LET fixed_result == fix_trailing_commas(result)
        json_result == json_loads(fixed_result)
        a == append_result_to_json(file, fixed_result)
    IN  [file |-> IF json_result.ok THEN a.file ELSE file,
         log |-> <<TaskLog("raw result", i + 1)>>
                   \o (IF json_result.ok THEN a.log
                       ELSE <<Log("JSON decode error after validation"),
                              Log("Problematic result")>>)
                   \o <<TaskLog("output", i + 1)>>]

Init ==
    /\ pc = "none"
    /\ comments_chunks = <<>>
    /\ idx = 0
    /\ results = <<>>
    /\ raw_results_file = NoFile
    /\ final_results_file = NoFile
    /\ log = <<>>
    /\ kickoffs = 0
    /\ arg = <<>>
    /\ res = <<>>

\* CommentsAnalysis(comments_file_path): a new object, in this process or
\* in a later one.
Construct ==
    /\ pc \in {"none", "finished"}
    /\ pc' = "ready"
    /\ raw_results_file' = initialize_results_file.file
    /\ log' = initialize_results_file.log
    /\ comments_chunks' = <<>>
    /\ idx' = 0
    /\ results' = <<>>
    /\ UNCHANGED <<final_results_file, kickoffs, arg, res>>

\* run() when comments.json does not exist: FileNotFoundError, caught at
\* line 295.
RunSourceMissing ==
    /\ pc \in {"ready", "finished"}
    /\ pc' = "finished"
    /\ log' = <<Log("An error occurred")>>
    /\ comments_chunks' = <<>>
    /\ idx' = 0
    /\ results' = <<>>
    /\ UNCHANGED <<raw_results_file, final_results_file, kickoffs, arg, res>>

\* run() when comments.json holds null.
RunSourceNull ==
    /\ pc \in {"ready", "finished"}
    /\ pc' = "finished"
    /\ log' = <<Log("Failed to load comments data.")>>
    /\ comments_chunks' = <<>>
    /\ idx' = 0
    /\ results' = <<>>
    /\ UNCHANGED <<raw_results_file, final_results_file, kickoffs, arg, res>>

\* run() up to the loop, on a comments.json of n comments; the call may be
\* the first on the object or a later one.
RunStart(n) ==
    /\ pc \in {"ready", "finished"}
    /\ LET comments_data == [c \in 1..n |-> c]
           chunks == split_comments(comments_data, chunk_size)
       IN  /\ kickoffs + Len(chunks) <= MaxKickoffs
           /\ comments_chunks' = chunks
    /\ pc' = "loop"
    /\ idx' = 0
    /\ results' = <<>>
    /\ log' = <<Log("Loaded comments")>>
    /\ UNCHANGED <<raw_results_file, final_results_file, kickoffs, arg, res>>

\* crew.kickoff(inputs={"comments_chunk": chunk}) is called.
Kickoff ==
    /\ pc = "loop"
    /\ ~LoopDone(idx, Len(comments_chunks))
    /\ kickoffs < MaxKickoffs
    /\ pc' = "kickoff"
    /\ kickoffs' = kickoffs + 1
    /\ results' = Append(results, [chunk |-> idx, kind |-> "pending", text |-> <<>>])
    /\ UNCHANGED <<comments_chunks, idx, raw_results_file, final_results_file,
                   log, arg, res>>

\* crew.kickoff returns a text; the rest of the loop body runs.
KickoffReturn(text) ==
    /\ pc = "kickoff"
    /\ LET r == ProcessResult(raw_results_file, text, idx) IN
           /\ raw_results_file' = r.file
           /\ log' = log \o r.log
    /\ results' = [results EXCEPT ![Len(results)] =
                      [chunk |-> idx, kind |-> "text", text |-> text]]
    /\ idx' = LoopNext(idx)
    /\ pc' = "loop"
    /\ UNCHANGED <<comments_chunks, final_results_file, kickoffs, arg, res>>

\* crew.kickoff raises: nothing in the loop catches it, the handler of
\* line 295 logs it and run() returns.
KickoffRaise ==
    /\ pc = "kickoff"
    /\ results' = [results EXCEPT ![Len(results)] =
                      [chunk |-> idx, kind |-> "raised", text |-> <<>>]]
    /\ log' = Append(log, Log("An error occurred"))
    /\ pc' = "finished"
    /\ UNCHANGED <<comments_chunks, idx, raw_results_file, final_results_file,
                   kickoffs, arg, res>>

\* self.merge_results() after the loop; run() returns.
RunMerge ==
    /\ pc = "loop"
    /\ LoopDone(idx, Len(comments_chunks))
    /\ LET m == merge_results(raw_results_file, final_results_file) IN
           /\ final_results_file' = m.final
           /\ log' = log \o m.log
    /\ pc' = "finished"
    /\ UNCHANGED <<comments_chunks, idx, results, raw_results_file, kickoffs,
                   arg, res>>

Next ==
    \/ Construct
    \/ RunSourceMissing
    \/ RunSourceNull
    \/ \E n \in CommentCounts : RunStart(n)
    \/ Kickoff
    \/ \E text \in AgentOutputs : KickoffReturn(text)
    \/ KickoffRaise
    \/ RunMerge

Spec == Init /\ [][Next]_vars

----------------------------------------------------------------------------
(* The store and the merger called on their own.                           *)

\* After initialize_results_file: arg is the texts handed to
\* append_result_to_json so far, res the last log message of each call.
InitStore ==
    /\ pc = "store"
    /\ comments_chunks = <<>>
    /\ idx = 0
    /\ results = <<>>
    /\ raw_results_file = initialize_results_file.file
    /\ final_results_file = NoFile
    /\ log = initialize_results_file.log
    /\ kickoffs = 0
    /\ arg = <<>>
    /\ res = <<>>

AppendCall(text) ==
    /\ Len(arg) < MaxAppends
    /\ LET a == append_result_to_json(raw_results_file, text) IN
           /\ raw_results_file' = a.file
           /\ log' = a.log
           /\ res' = Append(res, a.log[Len(a.log)].msg)
    /\ arg' = Append(arg, text)
    /\ UNCHANGED <<pc, comments_chunks, idx, results, final_results_file, kickoffs>>

MergeCall ==
    /\ LET m == merge_results(raw_results_file, final_results_file) IN
           /\ final_results_file' = m.final
           /\ log' = m.log
    /\ UNCHANGED <<pc, comments_chunks, idx, results, raw_results_file,
                   kickoffs, arg, res>>

NextStore ==
    \/ \E text \in StoreTexts : AppendCall(text)
    \/ MergeCall

SpecStore == InitStore /\ [][NextStore]_vars

----------------------------------------------------------------------------
(* The pure functions called on their own.                                 *)

CommentAlphabet == {"a", "b"}

InitSplit ==
    /\ pc = "split"
    /\ arg \in [comments : SeqsUpTo(CommentAlphabet, MaxN), chunk_size : 1..MaxK]
    /\ res = <<>>
    /\ comments_chunks = <<>>
    /\ idx = 0
    /\ results = <<>>
    /\ raw_results_file = NoFile
    /\ final_results_file = NoFile
    /\ log = <<>>
    /\ kickoffs = 0

SplitCall ==
    /\ res = <<>>
    /\ res' = <<split_comments(arg.comments, arg.chunk_size)>>
    /\ UNCHANGED <<pipeVars, arg>>

SpecSplit == InitSplit /\ [][SplitCall]_vars

FixAlphabet == {",", " ", "\n", "]", "}", "1"}

\* '{"a": [1,2,],}'
FixExample ==
    <<"{", "\"", "a", "\"", ":", " ", "[", "1", ",", "2", ",", "]", ",", "}">>

InitFix ==
    /\ pc = "fix"
    /\ arg \in SeqsUpTo(FixAlphabet, MaxFixLen) \cup {FixExample}
    /\ res = <<>>
    /\ comments_chunks = <<>>
    /\ idx = 0
    /\ results = <<>>
    /\ raw_results_file = NoFile
    /\ final_results_file = NoFile
    /\ log = <<>>
    /\ kickoffs = 0

FixCall ==
    /\ res = <<>>
    /\ res' = <<fix_trailing_commas(arg)>>
    /\ UNCHANGED <<pipeVars, arg>>

SpecFix == InitFix /\ [][FixCall]_vars

\* The pieces raw comments are built from: single characters, and four hex
\* digits in one piece so that \uXXXX and \UXXXXXXXX fit in few pieces.
CleanFrags ==
    {<<"\\">>, <<"\"">>, <<"'">>, <<"$">>, <<"n">>, <<"t">>, <<"r">>, <<"u">>,
     <<"U">>, <<" ">>, <<"x">>, <<"0", "0", "e", "9">>}

InitClean ==
    /\ pc = "clean"
    /\ \E frags \in SeqsUpTo(CleanFrags, MaxCleanFrags) : arg = Flatten(frags)
    /\ res = <<>>
    /\ comments_chunks = <<>>
    /\ idx = 0
    /\ results = <<>>
    /\ raw_results_file = NoFile
    /\ final_results_file = NoFile
    /\ log = <<>>
    /\ kickoffs = 0

\* The sanitizer, on the raw text and then on its own result.
CleanCall ==
    /\ Len(res) < 2
    /\ res' = Append(res, clean_escape_characters(
                              IF res = <<>> THEN arg ELSE res[Len(res)]))
    /\ UNCHANGED <<pipeVars, arg>>

SpecClean == InitClean /\ [][CleanCall]_vars

----------------------------------------------------------------------------
(* What the properties read off a state.                                   *)

LastMsg == IF log = <<>> THEN "" ELSE log[Len(log)].msg

\* run() got past loading comments.json in the current run.
RunLoaded == log # <<>> /\ log[1].msg = "Loaded comments"

\* merge_results has been called, and has written the report.
MergeInvoked ==
    \E n \in DOMAIN log : log[n].msg \in {"results merged", "Failed to merge results"}

ReportWritten == \E n \in DOMAIN log : log[n].msg = "results merged"

\* The j-th dispatched chunk (task j) has its outcome on record: its result
\* was appended to the store, or its failure was logged.
OutcomeRecorded(j) ==
    \/ /\ results[j].kind = "raised"
       /\ LastMsg = "An error occurred"
    \/ \E n \in DOMAIN log :
          /\ log[n] = TaskLog("raw result", j)
          /\ n < Len(log)
          /\ log[n + 1].msg \in {"result appended", "Failed to append the result",
                                 "JSON decode error after validation"}

\* The repaired output of the j-th dispatched chunk, parsed.
ParsedOutput(j) == json_loads(fix_trailing_commas(results[j].text))

\* The parsed outputs of the chunks from j on whose repaired output is JSON.
RECURSIVE ParsedFrom(_)
ParsedFrom(j) ==
    IF j > Len(results) THEN <<>>
    ELSE (IF ParsedOutput(j).ok THEN <<ParsedOutput(j).val>> ELSE <<>>)
         \o ParsedFrom(j + 1)

\* The records of the calls of append_result_to_json that reported success.
RECURSIVE AppendedFrom(_)
AppendedFrom(j) ==
    IF j > Len(arg) THEN <<>>
    ELSE (IF res[j] = "result appended"
          THEN <<json_loads(fix_trailing_commas(arg[j])).val>> ELSE <<>>)
         \o AppendedFrom(j + 1)

\* The Result Store and the FinalReport as the files hold them.
Store == json_loads(raw_results_file.data)

Report == json_loads(final_results_file.data)

\* The report is a mapping with the six canonical keys, in order.
ReportShape ==
    /\ final_results_file.exists
    /\ Report.ok
    /\ Report.val.t = "dict"
    /\ Len(Report.val.v) = Len(Themes)
    /\ \A n \in DOMAIN Themes : Report.val.v[n].k = Themes[n]

RouteOf(key) == IF \E n \in DOMAIN Themes : Themes[n] = key THEN key ELSE Other

\* Per theme: the elements of the list values routed to it, entry by entry
\* and pair by pair, entries that are no mappings left out.
Routed(entries, theme) ==
    Flatten([e \in DOMAIN entries |->
        IF entries[e].t # "dict" THEN <<>>
        ELSE Flatten([p \in DOMAIN entries[e].v |->
                 LET pair == entries[e].v[p] IN
                 IF pair.v.t = "list" /\ RouteOf(pair.k) = theme
                 THEN pair.v.v ELSE <<>>])])

AllListValued(entries) ==
    \A e \in DOMAIN entries :
        entries[e].t = "dict" =>
            \A p \in DOMAIN entries[e].v : entries[e].v[p].v.t = "list"

Closers == {"]", "}"}

\* Position i of s is a comma followed, after optional whitespace, by a
\* closing bracket, or part of that whitespace.
Deleted(s, i) ==
    \E j \in 1..i : \E k \in (i + 1)..Len(s) :
        /\ s[j] = ","
        /\ s[k] \in Closers
        /\ \A m \in (j + 1)..(k - 1) : s[m] \in Whitespace

\* s without its deleted positions.
Kept(s) ==
    LET keep == {i \in DOMAIN s : ~Deleted(s, i)}
        nth(n) == CHOOSE i \in keep : Cardinality({m \in keep : m <= i}) = n
    IN  [n \in 1..Cardinality(keep) |-> s[nth(n)]]

\* '{"a": [1,2]}'
FixExampleRepaired ==
    <<"{", "\"", "a", "\"", ":", " ", "[", "1", ",", "2", "]", "}">>

----------------------------------------------------------------------------
(* The claims.                                                             *)

\* C1: when crew.kickoff fails for a chunk, the failure is logged, every
\* later chunk is still invoked, and the merger still runs and writes the
\* FinalReport: a run that has returned after a failed invocation has
\* dispatched all its chunks and written the report.
C1_InvocationFailureIsolated ==
    \A j \in DOMAIN results :
        results[j].kind = "raised" =>
            /\ \E n \in DOMAIN log : log[n].msg = "An error occurred"
            /\ pc = "finished" =>
                  /\ Len(results) = Len(comments_chunks)
                  /\ ReportWritten

\* C2: in a run where every invocation returns a text, all chunks are
\* invoked, the run reaches the merger, the store holds exactly the parsed
\* results of the chunks whose repaired output is JSON, in chunk order, one
\* failure is logged per chunk whose repaired output is not, and the
\* FinalReport is the merge of that store.
C2_MalformedOutputResilience ==
    (/\ pc = "finished"
     /\ RunLoaded
     /\ \A j \in DOMAIN results : results[j].kind = "text")
    => LET expected == File(json_dumps(List(ParsedFrom(1)))) IN
       /\ Len(results) = Len(comments_chunks)
       /\ MergeInvoked
       /\ raw_results_file = expected
       /\ Cardinality({n \in DOMAIN log :
                         log[n].msg = "JSON decode error after validation"})
            = Cardinality({j \in DOMAIN results : ~ParsedOutput(j).ok})
       /\ ReportWritten
       /\ final_results_file = merge_results(expected, NoFile).final

\* C3: whenever merge_results has written the report, the report has the six
\* canonical keys, each of the five themes holds, in store order, the
\* elements of the list values under exactly that key, and, when every value
\* in the store is a list, Other holds the elements of the list values under
\* "Other" and under every other key; entries that are no mappings add
\* nothing.
C3_MergerRouting ==
    LastMsg = "results merged" =>
        /\ ReportShape
        /\ Store.ok
        /\ \A n \in 1..(Len(Themes) - 1) :
              Report.val.v[n].v = List(Routed(Store.val.v, Themes[n]))
        /\ AllListValued(Store.val.v) =>
              Report.val.v[Len(Themes)].v = List(Routed(Store.val.v, Other))

\* A merge of a store of two entries, a mapping with a case variant of a
\* theme, "Other" and a theme, and an entry that is no mapping.
C3_Witness ==
    /\ LastMsg = "results merged"
    /\ arg = <<OutManyKeys, OutNotMapping>>
    /\ Len(Store.val.v) = 2
    /\ Report.val.v[4].v = List(<<Str(<<"g">>), Str(<<"h">>)>>)
    /\ Report.val.v[6].v = List(<<Str(<<"e">>), Str(<<"f">>)>>)

\* C4: for any store contents, values that are no lists included,
\* merge_results completes and writes a FinalReport with exactly the six
\* canonical keys, each a list, in which the records of every list value
\* are still present under their theme.
C4_MergerToleratesNonList ==
    (/\ LastMsg \in {"results merged", "Failed to merge results"}
     /\ Store.ok)
    => /\ LastMsg = "results merged"
       /\ ReportShape
       /\ \A n \in DOMAIN Themes : Report.val.v[n].v.t = "list"
       /\ \A n \in 1..(Len(Themes) - 1) :
             Report.val.v[n].v = List(Routed(Store.val.v, Themes[n]))

\* C5: whenever run() starts processing chunks, the store is empty: it
\* holds no record of an earlier run, an earlier run of the same object
\* included.
C5_StoreEmptyAtRunStart ==
    (pc = "loop" /\ idx = 0 /\ results = <<>>)
        => raw_results_file = File(json_dumps(List(<<>>)))

\* C6: split_comments returns ceil(N/K) chunks, every chunk but the last of
\* length K, the last of length 1 to K, and the chunks concatenated are the
\* input.
C6_BatchingPreserves ==
    res # <<>> =>
        LET chunks == res[1]
            N == Len(arg.comments)
            K == arg.chunk_size
        IN  /\ Len(chunks) = (N + K - 1) \div K
            /\ N = 0 => chunks = <<>>
            /\ \A c \in 1..(Len(chunks) - 1) : Len(chunks[c]) = K
            /\ chunks # <<>> => Len(chunks[Len(chunks)]) \in 1..K
            /\ Flatten(chunks) = arg.comments

\* Five comments in chunks of two: two full chunks and a short last one.
C6_Witness ==
    /\ res # <<>>
    /\ Len(arg.comments) = 5
    /\ arg.chunk_size = 2
    /\ Len(res[1]) = 3
    /\ Len(res[1][3]) = 1

\* C7, as amended: fix_trailing_commas returns the text with each comma that
\* is followed, after optional whitespace, by a closing ] or } removed,
\* together with that whitespace, and nothing else changed; a text with no
\* such comma is returned unchanged; '{"a": [1,2,],}' becomes '{"a": [1,2]}'.
C7_RepairRemovesTrailingCommas ==
    res # <<>> =>
        /\ res[1] = Kept(arg)
        /\ (\A i \in DOMAIN arg : ~Deleted(arg, i)) => res[1] = arg
        /\ arg = FixExample => res[1] = FixExampleRepaired

\* The example of the specification, repaired.
C7_Witness ==
    /\ res # <<>>
    /\ arg = FixExample
    /\ res[1] = FixExampleRepaired
    /\ res[1] # arg

\* C7, as claimed: in addition, the result holds no comma directly before a
\* closing ] or }.
C7_NoCommaBeforeClose ==
    res # <<>> =>
        /\ res[1] = Kept(arg)
        /\ \A i \in 1..(Len(res[1]) - 1) :
              ~(res[1][i] = "," /\ res[1][i + 1] \in Closers)

\* C8: chunks are dispatched in index order, each at most once and none
\* after a failed invocation; a chunk is dispatched only when every chunk
\* before it has its outcome appended or logged; the merger is invoked only
\* when every chunk has been dispatched and has its outcome on record.
C8_SequentialAtMostOnce ==
    /\ \A j \in DOMAIN results : results[j].chunk = j - 1
    /\ Len(results) <= Len(comments_chunks)
    /\ \A j \in DOMAIN results :
          j < Len(results) => results[j].kind = "text" /\ OutcomeRecorded(j)
    /\ (pc = "kickoff") <=>
          (results # <<>> /\ results[Len(results)].kind = "pending")
    /\ MergeInvoked =>
          /\ pc = "finished"
          /\ Len(results) = Len(comments_chunks)
          /\ \A j \in DOMAIN results : OutcomeRecorded(j)

\* A run of three chunks whose second chunk failed to parse, merged.
C8_Witness ==
    /\ pc = "finished"
    /\ Len(results) = 3
    /\ ReportWritten
    /\ ParsedOutput(1).ok
    /\ ~ParsedOutput(2).ok
    /\ results[3].kind = "text"

\* C9: the sanitizer applied to its own result returns that result.
C9_SanitizerIdempotent == Len(res) = 2 => res[2] = res[1]

\* The sanitizer applied twice to a text of a \uXXXX escape and a letter:
\* the first application removes the escape and leaves the letter.
C9_Witness ==
    /\ Len(res) = 2
    /\ arg = <<"\\", "u", "0", "0", "e", "9", "x">>
    /\ res[1] = <<"x">>

\* C10: after initialize_results_file and any sequence of
\* append_result_to_json calls, the store file is exactly the serialization
\* of the records of the calls that succeeded, in call order (so no stale
\* bytes are left and a call that fails leaves the file as it was).
C10_StoreFileWellFormed ==
    raw_results_file = File(json_dumps(List(AppendedFrom(1))))

====
